---- MODULE Spec2Model ----
(***************************************************************************)
(* A model of swl-argparse (src/src/index.ts): the token normalizer        *)
(* expand_flags, the primitive handlers flag / param / arg / expect /      *)
(* oneof with the combinators required / map / default / repeat, and       *)
(* CliParser.doScan / doValues / parse.                                    *)
(*                                                                         *)
(* A JavaScript string is a sequence of one-character strings, a token     *)
(* list a sequence of such sequences.  Array indices in the operators      *)
(* below are the 0-based indices of the source; the translation to the     *)
(* 1-based sequences of TLA+ is confined to CharAt, Slice and the scans.    *)
(***************************************************************************)
EXTENDS Integers, Sequences, FiniteSets, TLC

VARIABLES
  parser,   \* the CliParser parse() runs on: its handlers, in declaration order
  argv,     \* the token list handed to parse() / expand_flags()
  args,     \* parse()'s local args: the normalized token list
  pc,       \* where parse() is: start, scan, scanned, done, threw, exited, expanded
  stack,    \* the doScan activations in progress, innermost last
  r,        \* what the top-level doScan returned to parse()
  result,   \* what parse() returned or threw
  wm,       \* the WeakMaps of the oneof handlers: array identity -> entry
  nextRef,  \* the next array identity to hand out
  hist,     \* the parse runs made on these handlers so far, and those to come
  builder,  \* the closure of a flag() / param() builder: its activators
  made,     \* the Handler objects constructed so far, each with its opts object
  optsHeap, \* the opts objects: help and group, by object identity
  call      \* the last operation called on a builder or a handler

\* the handler objects and the run history: parse() leaves them alone
aux == <<hist, builder, made, optsHeap, call>>

vars == <<parser, argv, args, pc, stack, r, result, wm, nextRef, aux>>

-----------------------------------------------------------------------------
(* Bounds of the model *)

MaxArgs == 3      \* longest argv handed to parse()
MaxTokLen == 4    \* longest token handed to expand_flags() on its own

-----------------------------------------------------------------------------
(* Strings and arrays *)

Min(a, b) == IF a < b THEN a ELSE b

\* s[i] of a string: the character, or undefined (here "") past the end
CharAt(s, i) == IF i >= 0 /\ i < Len(s) THEN s[i + 1] ELSE ""

\* a.slice(from, to) for 0 <= from
Slice(a, from, to) == SubSeq(a, from + 1, Min(to, Len(a)))

\* a.includes(x)
Includes(a, x) == \E i \in 1..Len(a) : a[i] = x

\* s.search("="): the index of the first "=", or -1
RECURSIVE SearchFrom(_, _, _)
SearchFrom(s, c, i) ==
  IF i >= Len(s) THEN -1
  ELSE IF CharAt(s, i) = c THEN i
  ELSE SearchFrom(s, c, i + 1)

Search(s, c) == SearchFrom(s, c, 0)

-----------------------------------------------------------------------------
(* expand_flags *)

\* ExpandShort without the break of line 250
RECURSIVE ExpandShort_NoBreak(_, _, _)
ExpandShort_NoBreak(arg, i, res) ==
  IF i >= Len(arg) THEN res
  ELSE IF CharAt(arg, i) = "="
    THEN ExpandShort_NoBreak(arg, i + 1, Append(res, Slice(arg, i + 1, Len(arg))))
    ELSE ExpandShort_NoBreak(arg, i + 1, Append(res, <<"-", CharAt(arg, i)>>))

\* the inner loop "for (let i = 1, l = arg.length; i < l; i++)" from index i
RECURSIVE ExpandShort(_, _, _)
ExpandShort(arg, i, res) ==
  IF i >= Len(arg) THEN res
  ELSE IF CharAt(arg, i) = "="
    THEN Append(res, Slice(arg, i + 1, Len(arg)))
    ELSE ExpandShort(arg, i + 1, Append(res, <<"-", CharAt(arg, i)>>))

\* the body of "for (let arg of argv)": what one token pushes onto res
ExpandArg(arg, res) ==
  IF CharAt(arg, 0) = "-" /\ CharAt(arg, 1) # "-"
    THEN ExpandShort(arg, 1, res)
  ELSE IF CharAt(arg, 0) = "-" /\ CharAt(arg, 1) = "-" /\ Includes(arg, "=")
    THEN LET first == Search(arg, "=")
         IN  Append(Append(res, Slice(arg, 0, first)),
                    Slice(arg, first + 1, Len(arg)))
  ELSE Append(res, arg)

RECURSIVE ExpandFrom(_, _, _)
ExpandFrom(list, n, res) ==
  IF n > Len(list) THEN res
  ELSE ExpandFrom(list, n + 1, ExpandArg(list[n], res))

expand_flags(list) == ExpandFrom(list, 1, <<>>)

-----------------------------------------------------------------------------
(* Values: what scan and value return *)

Undefined == [t |-> "undefined"]
Str(s) == [t |-> "string", s |-> s]
Bool(b) == [t |-> "boolean", b |-> b]
Arr(items) == [t |-> "array", items |-> items]
Obj(fields) == [t |-> "object", fields |-> fields]
\* fn(x) of map(fn): the model's fn tags its argument
Mapped(x) == [t |-> "mapped", of |-> x]
\* throw new Error("?!")
Panic == [t |-> "panic"]

\* new MatchError(message); a message is the list of the parts that ", " joins
MatchError(message) == [t |-> "MatchError", message |-> message]

IsMatchError(v) == v.t = "MatchError"
IsNull(v) == v.t = "undefined"
IsPanic(v) == v.t = "panic"

MsgOnce(activators) == <<[m |-> "can only appear once", activators |-> activators]>>
MsgMustActs(activators) == <<[m |-> "must be specified", activators |-> activators]>>
MsgMustKey(key) == <<[m |-> "must be specified", key |-> key]>>
MsgExpected(value) == <<[m |-> "expected", value |-> value]>>
MsgNothing == <<[m |-> "nothing was consumed"]>>
MsgEmpty == <<[m |-> ""]>>

\* errors.join(", ")
RECURSIVE JoinFrom(_, _)
JoinFrom(errors, n) ==
  IF n > Len(errors) THEN <<>> ELSE errors[n] \o JoinFrom(errors, n + 1)

Join(errors) == IF Len(errors) = 0 THEN MsgEmpty ELSE JoinFrom(errors, 1)

-----------------------------------------------------------------------------
(* Handlers.  A handler is the record of what its closures capture: the    *)
(* primitive that built it (kind), opts.key, opts.activators (absent for   *)
(* arg, expect and oneof), expect's literal (value), oneof's parsers (opt) *)
(* and the identity of its WeakMap (wm), and the combinators applied to it *)
(* since, oldest first (mods).  A CliParser is the sequence of its         *)
(* handlers.                                                               *)

Handler(kind, key, activators, hasActivators, value, opt, w) ==
  [ kind |-> kind, key |-> key, activators |-> activators,
    hasActivators |-> hasActivators, value |-> value, opt |-> opt,
    wm |-> w, mods |-> <<>> ]

\* flag(...activators).as(key), the first as() of its builder
flag(activators, key) ==
  Handler("flag", key,
          IF Len(activators) = 0 THEN << <<"-", "-">> \o key >> ELSE activators,
          TRUE, <<>>, <<>>, "")

\* param(...activators).as(key), the first as() of its builder
param(activators, key) ==
  Handler("param", key,
          IF Len(activators) = 0 THEN << <<"-", "-">> \o key >> ELSE activators,
          TRUE, <<>>, <<>>, "")

arg(key) == Handler("arg", key, <<>>, FALSE, <<>>, <<>>, "")

\* expect(value).as(key)
expect(value, key) == Handler("expect", key, <<>>, FALSE, value, <<>>, "")

\* oneof(...opt).as(key); w names the WeakMap this as() creates
oneof(opt, key, w) == Handler("oneof", key, <<>>, FALSE, <<>>, opt, w)

\* derive: a new handler over the same closures and opts
derive(h, mod) == [h EXCEPT !.mods = Append(@, mod)]

required(h) == derive(h, [m |-> "required"])
map(h) == derive(h, [m |-> "map"])
default(h, v) == derive(h, [m |-> "default", v |-> v])
repeat(h) == derive(h, [m |-> "repeat"])

\* a claimed group: the array a scan returned (its tokens and its identity),
\* and the position it was claimed at
Group(toks, ref, at) == [toks |-> toks, ref |-> ref, at |-> at]

-----------------------------------------------------------------------------
(* scan of the primitives other than oneof: undefined, a MatchError, or    *)
(* the array of the claimed tokens                                         *)

flagScan(h, a, pos) ==
  IF pos < Len(a) /\ Includes(h.activators, a[pos + 1])
    THEN Arr(<<a[pos + 1]>>)
    ELSE Undefined

\* paramScan claiming the value alone, without the activator
paramScan_ValueOnly(h, a, pos) ==
  IF pos < Len(a) /\ Includes(h.activators, a[pos + 1])
    THEN IF pos + 1 >= Len(a) \/ CharAt(a[pos + 2], 0) = "-"
           THEN Arr(Slice(a, pos + 1, pos + 1))
           ELSE Arr(Slice(a, pos + 1, pos + 2))
    ELSE Undefined

\* paramScan taking the next token as the value even when it begins with "-"
paramScan_Greedy(h, a, pos) ==
  IF pos < Len(a) /\ Includes(h.activators, a[pos + 1])
    THEN IF pos + 1 >= Len(a)
           THEN Arr(Slice(a, pos, pos + 1))
           ELSE Arr(Slice(a, pos, pos + 2))
    ELSE Undefined

paramScan(h, a, pos) ==
  IF pos < Len(a) /\ Includes(h.activators, a[pos + 1])
    THEN IF pos + 1 >= Len(a) \/ CharAt(a[pos + 2], 0) = "-"
           THEN Arr(Slice(a, pos, pos + 1))
           ELSE Arr(Slice(a, pos, pos + 2))
    ELSE Undefined

argScan(h, a, pos, acc) ==
  IF Len(acc) > 0 \/ pos > Len(a) - 1
    THEN Undefined
    ELSE Arr(<<a[pos + 1]>>)

expectScan(h, a, pos, acc) ==
  IF Len(acc) > 0 THEN Undefined
  ELSE IF pos >= Len(a) \/ a[pos + 1] # h.value
    THEN MatchError(MsgExpected(h.value))
  ELSE Arr(<<a[pos + 1]>>)

baseScan(h, a, pos, acc) ==
  CASE h.kind = "flag" -> flagScan(h, a, pos)
    [] h.kind = "param" -> paramScan(h, a, pos)
    [] h.kind = "arg" -> argScan(h, a, pos, acc)
    [] h.kind = "expect" -> expectScan(h, a, pos, acc)

\* repeat() replaces scan by one that hands the base scan an empty accumulator
Repeated(h) == \E i \in 1..Len(h.mods) : h.mods[i].m = "repeat"

scan(h, a, pos, acc) == baseScan(h, a, pos, IF Repeated(h) THEN <<>> ELSE acc)

-----------------------------------------------------------------------------
(* value of the primitives and of the combinators, and doValues.  w is the *)
(* state of the oneof WeakMaps.                                            *)

RECURSIVE valueAt(_, _, _, _)
RECURSIVE repeatFrom(_, _, _, _, _, _)
RECURSIVE valuesFrom(_, _, _, _, _)

\* flagValue without the test of line 139
flagValue_NoOnceTest(h, id) == Bool(Len(id) # 0)

flagValue(h, id) ==
  IF Len(id) > 1 THEN MatchError(MsgOnce(h.activators)) ELSE Bool(Len(id) # 0)

paramValue(h, a) ==
  IF Len(a) > 1 THEN MatchError(MsgOnce(h.activators))
  ELSE IF Len(a) = 0 \/ Len(a[1].toks) < 2 THEN Undefined
  ELSE Str(a[1].toks[2])

argValue(h, a) ==
  IF Len(a) = 0 \/ Len(a[1].toks) < 1 THEN Undefined ELSE Str(a[1].toks[1])

expectValue(h) == Str(h.value)

\* wm.get(array) of the WeakMap of oneof handler h
wmHas(h, w, g) == g.ref \in DOMAIN w /\ w[g.ref].wm = h.wm

doValues(hs, mapres, w) == valuesFrom(hs, mapres, w, 1, <<>>)

\* oneof's value reading the oldest entry of its table instead of the entry
\* of the claimed array
oneofValue_OldestEntry(h, a, w) ==
  IF Len(a) > 1 THEN Panic
  ELSE IF Len(a) = 0 THEN Undefined
  ELSE LET mine == {k \in DOMAIN w : w[k].wm = h.wm}
       IN  IF mine = {} THEN Undefined
           ELSE LET k == CHOOSE x \in mine : \A y \in mine : x <= y
                IN  doValues(w[k].opt, w[k].mapres, w)

oneofValue(h, a, w) ==
  IF Len(a) > 1 THEN Panic
  ELSE IF Len(a) = 0 THEN Undefined
  ELSE IF ~wmHas(h, w, a[1]) THEN Undefined
  ELSE doValues(w[a[1].ref].opt, w[a[1].ref].mapres, w)

baseValue(h, strs, w) ==
  CASE h.kind = "flag" -> flagValue(h, strs)
    [] h.kind = "param" -> paramValue(h, strs)
    [] h.kind = "arg" -> argValue(h, strs)
    [] h.kind = "expect" -> expectValue(h)
    [] h.kind = "oneof" -> oneofValue(h, strs, w)

requiredValue(h, res) ==
  IF IsPanic(res) \/ IsMatchError(res) THEN res
  ELSE IF IsNull(res)
    THEN MatchError(IF h.hasActivators THEN MsgMustActs(h.activators)
                                       ELSE MsgMustKey(h.key))
  ELSE res

mapValue(res) ==
  IF IsPanic(res) THEN res
  ELSE IF IsNull(res) THEN Undefined
  ELSE IF IsMatchError(res) THEN res
  ELSE Mapped(res)

\* default(v) standing in for a failed extraction as well as an absent one
defaultValue_OverError(v, res) ==
  IF IsPanic(res) THEN res
  ELSE IF IsNull(res) \/ IsMatchError(res) THEN v
  ELSE res

defaultValue(v, res) ==
  IF IsPanic(res) THEN res
  ELSE IF IsNull(res) THEN v
  ELSE res

\* repeatFrom returning what it has collected when a group fails
repeatFrom_Partial(h, n, strs, i, res, w) ==
  IF i > Len(strs) THEN Arr(res)
  ELSE LET sres == valueAt(h, n, <<strs[i]>>, w)
       IN  IF IsPanic(sres) THEN sres
           ELSE IF IsNull(sres) THEN repeatFrom(h, n, strs, i + 1, res, w)
           ELSE IF IsMatchError(sres) THEN Arr(res)
           ELSE repeatFrom(h, n, strs, i + 1, Append(res, sres), w)

\* the loop "for (let s of strs)" of repeat's value, from the i-th group
repeatFrom(h, n, strs, i, res, w) ==
  IF i > Len(strs) THEN Arr(res)
  ELSE LET sres == valueAt(h, n, <<strs[i]>>, w)
       IN  IF IsPanic(sres) THEN sres
           ELSE IF IsNull(sres) THEN repeatFrom(h, n, strs, i + 1, res, w)
           ELSE IF IsMatchError(sres) THEN sres
           ELSE repeatFrom(h, n, strs, i + 1, Append(res, sres), w)

\* the value function of h as it was after its first n combinators
valueAt(h, n, strs, w) ==
  IF n = 0 THEN baseValue(h, strs, w)
  ELSE LET mod == h.mods[n]
       IN  CASE mod.m = "required" -> requiredValue(h, valueAt(h, n - 1, strs, w))
             [] mod.m = "map" -> mapValue(valueAt(h, n - 1, strs, w))
             [] mod.m = "default" -> defaultValue(mod.v, valueAt(h, n - 1, strs, w))
             [] mod.m = "repeat" -> repeatFrom(h, n - 1, strs, 1, <<>>, w)

value(h, strs, w) == valueAt(h, Len(h.mods), strs, w)

\* the loop "for (let h of this.handlers)" of doValues, from the i-th handler;
\* res is the object built so far, a function of the keys set
valuesFrom(hs, mapres, w, i, res) ==
  IF i > Len(hs) THEN Obj(res)
  ELSE LET v == value(hs[i], mapres[i], w)
       IN  IF IsPanic(v) \/ IsMatchError(v) THEN v
           ELSE valuesFrom(hs, mapres, w, i + 1, (hs[i].key :> v) @@ res)

-----------------------------------------------------------------------------
(* The tokens, handlers and parsers the model runs on *)

TV == <<"-", "v">>
TVV == <<"-", "v", "v">>
TO == <<"-", "-", "o">>
TX == <<"x">>
TY == <<"y">>
TL == <<"l", "i", "t">>

RawTokens == {TV, TVV, TO, TX, TY, TL}

Kv == <<"v">>
Ko == <<"o">>
Ka == <<"a">>
Kb == <<"b">>

PEmpty == <<>>
PFlag == <<flag(<<TV>>, Kv)>>
PFlagParam == <<flag(<<TV>>, Kv), param(<<>>, Ko)>>
PArgsFirst == <<arg(Ka), arg(Kb), flag(<<TV>>, Kv)>>
PArgsLast == <<flag(<<TV>>, Kv), arg(Ka), arg(Kb)>>
PArgsAround == <<arg(Ka), flag(<<TV>>, Kv), arg(Kb)>>

AltX == <<expect(TX, <<"c", "x">>), param(<<TO>>, Ko)>>
AltLit == <<expect(TL, <<"c", "l">>), flag(<<TV>>, <<"w">>)>>
AltY == <<expect(TY, <<"c", "y">>)>>

POneof == <<flag(<<TV>>, Kv), oneof(<<AltX, AltLit>>, <<"c", "m", "d">>, "wm1")>>
PNested ==
  <<oneof(<< <<oneof(<<AltX, AltY>>, <<"i", "n">>, "wm2")>>, AltLit >>,
          <<"o", "u", "t">>, "wm3")>>
PRepeat == <<repeat(flag(<<TV>>, Kv)), repeat(required(param(<<TO>>, Ko)))>>
PRepeatArg == <<repeat(param(<<TO>>, Ko)), repeat(arg(Ka))>>
PRepeatOneof == <<repeat(oneof(<<AltX, AltLit>>, <<"c">>, "wm4"))>>
PExpect == <<flag(<<TV>>, Kv), expect(TL, <<"k">>)>>
PExpectFirst == <<expect(TL, <<"k">>), flag(<<TV>>, Kv)>>
PCombinators ==
  <<default(param(<<TO>>, Ko), Str(TY)), map(arg(Ka)), required(arg(Kb))>>

Parsers ==
  { PEmpty, PFlag, PFlagParam, PArgsFirst, PArgsLast, PArgsAround, POneof,
    PNested, PRepeat, PRepeatArg, PRepeatOneof, PExpect, PExpectFirst,
    PCombinators }

\* the token lists of at most n tokens of S
ListsOf(S, n) == UNION {[1..k -> S] : k \in 0..n}

Argvs == ListsOf(RawTokens, MaxArgs)

Chars == {"-", "=", "a"}
CharTokens == ListsOf(Chars, MaxTokLen)
CharArgvs ==
  {<<>>} \cup {<<t>> : t \in CharTokens}
         \cup {<<t, u>> : t \in CharTokens, u \in CharTokens}

-----------------------------------------------------------------------------
(* doScan.  One activation is a frame: this.handlers (hs), the locals pos, *)
(* init and mapres, the handler the for loop is at (h, from 1), and, while *)
(* that handler is a oneof, the locals of its scan: the alternative it is  *)
(* at (o, from 1) and errors.  iter counts the passes of the while loop.   *)
(* pc is "for" inside the loops, "exit" at line 328, "ret" once ret holds  *)
(* the return value.                                                       *)

None == [t |-> "none"]
Scanned(pos, mapres) == [t |-> "scanned", pos |-> pos, mapres |-> mapres]

\* LoopTop going on with the handler the for loop was at
LoopTop_SameHandler(f, a) ==
  IF f.pos < Len(a)
    THEN IF Len(f.hs) = 0
           THEN [f EXCEPT !.pc = "exit", !.iter = @ + 1]
           ELSE [f EXCEPT !.pc = "for", !.o = 1, !.errors = <<>>,
                          !.iter = @ + 1]
    ELSE [f EXCEPT !.pc = "exit"]

\* the test of "while (pos < l)" and the start of the for loop
LoopTop(f, a) ==
  IF f.pos < Len(a)
    THEN IF Len(f.hs) = 0
           THEN [f EXCEPT !.pc = "exit", !.iter = @ + 1]
           ELSE [f EXCEPT !.pc = "for", !.h = 1, !.o = 1, !.errors = <<>>,
                          !.iter = @ + 1]
    ELSE [f EXCEPT !.pc = "exit"]

\* lines 307-313: a call of doScan(a, pos) on the parser hs
NewFrame(hs, a, pos) ==
  LoopTop([ hs |-> hs, pos |-> pos, init |-> pos,
            mapres |-> [i \in 1..Len(hs) |-> <<>>],
            h |-> 1, o |-> 1, errors |-> <<>>, iter |-> 0,
            pc |-> "for", ret |-> None ], a)

\* Claim advancing the position by one whatever the group's length
Claim_AdvanceByOne(f, a, toks, ref) ==
  LoopTop([f EXCEPT !.pos = @ + 1,
                    !.mapres[f.h] = Append(@, Group(toks, ref, f.pos))], a)

\* lines 320-322: handler h returned the array toks (identity ref)
Claim(f, a, toks, ref) ==
  LoopTop([f EXCEPT !.pos = @ + Len(toks),
                    !.mapres[f.h] = Append(@, Group(toks, ref, f.pos))], a)

\* line 319, and line 325 after the last handler
NextHandler(f) ==
  IF f.h >= Len(f.hs)
    THEN [f EXCEPT !.pc = "exit"]
    ELSE [f EXCEPT !.h = @ + 1, !.o = 1, !.errors = <<>>]

\* line 318
Fail(f, err) == [f EXCEPT !.pc = "ret", !.ret = err]

\* lines 328-330
Exit(f, a) ==
  [f EXCEPT !.pc = "ret",
            !.ret = IF f.pos = f.init /\ f.pos < Len(a)
                      THEN MatchError(MsgNothing)
                      ELSE Scanned(f.pos, f.mapres)]

Top == stack[Len(stack)]
SetTop(f) == [stack EXCEPT ![Len(stack)] = f]
Scanning == pc = "scan" /\ Len(stack) > 0

-----------------------------------------------------------------------------
(* Actions *)

\* new Error(message)
Error(message) == [t |-> "Error", message |-> message]
\* process.exit(1) after "unrecognized argument"
Exited(tok) == [t |-> "exit", code |-> 1, unrecognized |-> tok]

\* parse(argv), lines 345-346: normalize and call doScan(args, 0)
ParseStart ==
  /\ pc = "start"
  /\ args' = expand_flags(argv)
  /\ stack' = <<NewFrame(parser, args', 0)>>
  /\ pc' = "scan"
  /\ UNCHANGED <<parser, argv, r, result, wm, nextRef, aux>>

\* ScanHandler going on to the next handler when the scan returned a
\* MatchError
ScanHandler_SkipFailure ==
  /\ Scanning /\ Top.pc = "for"
  /\ Top.hs[Top.h].kind # "oneof"
  /\ LET f == Top
         res == scan(f.hs[f.h], args, f.pos, f.mapres[f.h])
     IN  IF IsMatchError(res) \/ IsNull(res)
           THEN stack' = SetTop(NextHandler(f)) /\ nextRef' = nextRef
         ELSE /\ stack' = SetTop(Claim(f, args, res.items, nextRef))
              /\ nextRef' = nextRef + 1
  /\ UNCHANGED <<parser, argv, args, pc, r, result, wm, aux>>

\* line 317 for a handler that is not a oneof, and what lines 318-322 do
\* with what its scan returned
ScanHandler ==
  /\ Scanning /\ Top.pc = "for"
  /\ Top.hs[Top.h].kind # "oneof"
  /\ LET f == Top
         res == scan(f.hs[f.h], args, f.pos, f.mapres[f.h])
     IN  IF IsMatchError(res)
           THEN stack' = SetTop(Fail(f, res)) /\ nextRef' = nextRef
         ELSE IF IsNull(res)
           THEN stack' = SetTop(NextHandler(f)) /\ nextRef' = nextRef
         ELSE /\ stack' = SetTop(Claim(f, args, res.items, nextRef))
              /\ nextRef' = nextRef + 1
  /\ UNCHANGED <<parser, argv, args, pc, r, result, wm, aux>>

\* oneof's scan, line 193: o.doScan(args, pos) for the alternative it is at
OneofTry ==
  /\ Scanning /\ Top.pc = "for"
  /\ Top.hs[Top.h].kind = "oneof"
  /\ Top.o <= Len(Top.hs[Top.h].opt)
  /\ stack' = Append(stack, NewFrame(Top.hs[Top.h].opt[Top.o], args, Top.pos))
  /\ UNCHANGED <<parser, argv, args, pc, r, result, wm, nextRef, aux>>

\* oneof's scan, line 202: no alternative is left; doScan returns its
\* MatchError (line 318)
OneofFail ==
  /\ Scanning /\ Top.pc = "for"
  /\ Top.hs[Top.h].kind = "oneof"
  /\ Top.o > Len(Top.hs[Top.h].opt)
  /\ stack' = SetTop(Fail(Top, MatchError(Join(Top.errors))))
  /\ UNCHANGED <<parser, argv, args, pc, r, result, wm, nextRef, aux>>

\* lines 328-330
ScanExit ==
  /\ Scanning /\ Top.pc = "exit"
  /\ stack' = SetTop(Exit(Top, args))
  /\ UNCHANGED <<parser, argv, args, pc, r, result, wm, nextRef, aux>>

\* OneofReturn recording the first alternative, not the one that matched
OneofReturn_FirstOpt ==
  /\ Scanning /\ Len(stack) >= 2 /\ Top.pc = "ret"
  /\ LET try_res == Top.ret
         f == stack[Len(stack) - 1]
         hd == f.hs[f.h]
         below == SubSeq(stack, 1, Len(stack) - 2)
     IN  IF IsMatchError(try_res)
           THEN /\ stack' = Append(below,
                      [f EXCEPT !.errors = Append(@, try_res.message),
                                !.o = @ + 1])
                /\ UNCHANGED <<wm, nextRef>>
           ELSE LET res == Slice(args, f.pos, try_res.pos)
                IN  /\ wm' = (nextRef :> [ wm |-> hd.wm,
                                           mapres |-> try_res.mapres,
                                           opt |-> hd.opt[1] ]) @@ wm
                    /\ nextRef' = nextRef + 1
                    /\ stack' = Append(below, Claim(f, args, res, nextRef))
  /\ UNCHANGED <<parser, argv, args, pc, r, result, aux>>

\* oneof's scan, lines 194-200, when the doScan of an alternative returns,
\* and what lines 318-322 of the calling doScan do with a claimed slice
OneofReturn ==
  /\ Scanning /\ Len(stack) >= 2 /\ Top.pc = "ret"
  /\ LET try_res == Top.ret
         f == stack[Len(stack) - 1]
         hd == f.hs[f.h]
         below == SubSeq(stack, 1, Len(stack) - 2)
     IN  IF IsMatchError(try_res)
           THEN /\ stack' = Append(below,
                      [f EXCEPT !.errors = Append(@, try_res.message),
                                !.o = @ + 1])
                /\ UNCHANGED <<wm, nextRef>>
           ELSE LET res == Slice(args, f.pos, try_res.pos)
                IN  /\ wm' = (nextRef :> [ wm |-> hd.wm,
                                           mapres |-> try_res.mapres,
                                           opt |-> hd.opt[f.o] ]) @@ wm
                    /\ nextRef' = nextRef + 1
                    /\ stack' = Append(below, Claim(f, args, res, nextRef))
  /\ UNCHANGED <<parser, argv, args, pc, r, result, aux>>

\* ParseScanned without the test of line 350
ParseScanned_NoLengthTest ==
  /\ Scanning /\ Len(stack) = 1 /\ Top.pc = "ret"
  /\ r' = Top.ret
  /\ stack' = <<>>
  /\ IF IsMatchError(r')
       THEN /\ pc' = "threw"
            /\ result' = Error(<<[m |-> "match error: "]>> \o r'.message)
     ELSE pc' = "values" /\ result' = result
  /\ UNCHANGED <<parser, argv, args, wm, nextRef, aux>>

\* parse, lines 346-354: the top-level doScan returned
ParseScanned ==
  /\ Scanning /\ Len(stack) = 1 /\ Top.pc = "ret"
  /\ r' = Top.ret
  /\ stack' = <<>>
  /\ IF IsMatchError(r')
       THEN /\ pc' = "threw"
            /\ result' = Error(<<[m |-> "match error: "]>> \o r'.message)
     ELSE IF r'.pos # Len(args)
       THEN /\ pc' = "exited"
            /\ result' = Exited(args[r'.pos + 1])
     ELSE pc' = "values" /\ result' = result
  /\ UNCHANGED <<parser, argv, args, wm, nextRef, aux>>

\* parse, lines 356-358: doValues and the return
ParseValues ==
  /\ pc = "values"
  /\ LET r2 == doValues(parser, r.mapres, wm)
     IN  IF IsPanic(r2)
           THEN pc' = "threw" /\ result' = Error(<<[m |-> "?!"]>>)
         ELSE IF IsMatchError(r2)
           THEN /\ pc' = "threw"
                /\ result' = Error(<<[m |-> "match error: "]>> \o r2.message)
         ELSE pc' = "done" /\ result' = r2
  /\ UNCHANGED <<parser, argv, args, stack, r, wm, nextRef, aux>>

\* a direct call of the exported expand_flags(argv)
ExpandFlags ==
  /\ pc = "start"
  /\ args' = expand_flags(argv)
  /\ pc' = "expanded"
  /\ UNCHANGED <<parser, argv, stack, r, result, wm, nextRef, aux>>

-----------------------------------------------------------------------------
(* A second parse() on handlers that have been run.  The handlers, their   *)
(* closures and with them the WeakMaps of the oneof handlers live on, and  *)
(* so do the arrays of the earlier run; parse()'s locals are new.          *)

MaxRerunArgs == 2   \* longest argv of a run when two runs follow each other

\* a parser whose one handler is derived from the oneof handler of POneof:
\* derive() hands on the scan closure (line 67), and with it the WeakMap
PCmdAgain == <<repeat(POneof[2])>>

RerunParsers == {POneof, PCmdAgain}
RerunArgvs == ListsOf({TL, TX, TV}, MaxRerunArgs)

\* the next call of parse() of hist.plan, once the run before it is over
ParseAgain ==
  /\ pc \in {"done", "threw", "exited"}
  /\ hist.run >= 1 /\ hist.run <= Len(hist.plan)
  /\ parser' = hist.plan[hist.run].parser
  /\ argv' = hist.plan[hist.run].argv
  /\ args' = <<>> /\ pc' = "start" /\ stack' = <<>>
  /\ r' = None /\ result' = None
  /\ hist' = [hist EXCEPT !.run = @ + 1,
                          !.outcomes = Append(@, [pc |-> pc, result |-> result]),
                          !.base = nextRef]
  /\ UNCHANGED <<wm, nextRef, builder, made, optsHeap, call>>

-----------------------------------------------------------------------------
(* Builders and Handler objects.  flag(...activators) / param(...) return  *)
(* a builder whose as(key) closes over the variable activators; a Handler  *)
(* holds a reference to its opts object { key, help, group, activators }.  *)
(* made lists the Handler objects in the order of their construction, each *)
(* with the identity of its opts object in optsHeap and the handler it was *)
(* derived from (0 for one that as() made).                                *)

MaxHandlers == 3   \* Handler objects constructed in one behaviour

\* the string help() and group() are given
Texts == {<<"s">>}

\* flag(...given) / param(...given): the closure before any as()
Builder(kind, given) == [kind |-> kind, given |-> given, activators |-> given]

\* as(key) on the builder, lines 129-143 and 150-166: activators is assigned
\* if it is empty, and the new Handler gets a new opts { key, activators }
As ==
  /\ builder # None /\ Len(made) < MaxHandlers
  /\ \E key \in {Ka, Kb} :
       LET activators == IF Len(builder.activators) = 0
                           THEN << <<"-", "-">> \o key >>
                           ELSE builder.activators
           h == IF builder.kind = "flag" THEN flag(activators, key)
                                         ELSE param(activators, key)
       IN  /\ builder' = [builder EXCEPT !.activators = activators]
           /\ made' = Append(made, [h |-> h, opts |-> Len(optsHeap) + 1, from |-> 0])
           /\ optsHeap' = Append(optsHeap,
                 [key |-> key, activators |-> activators,
                  help |-> Undefined, group |-> Undefined])
           /\ call' = [op |-> "as", on |-> 0, key |-> key]
  /\ UNCHANGED <<parser, argv, args, pc, stack, r, result, wm, nextRef, hist>>

\* required() / map(fn) / default(v) / repeat() on the i-th handler: derive,
\* line 67, constructs a Handler with this.opts, the same object
Derive ==
  /\ Len(made) < MaxHandlers
  /\ \E i \in 1..Len(made) :
       \E mod \in {[m |-> "required"], [m |-> "map"], [m |-> "repeat"],
                   [m |-> "default", v |-> Str(TY)]} :
         /\ made' = Append(made, [h |-> derive(made[i].h, mod),
                                  opts |-> made[i].opts, from |-> i])
         /\ call' = [op |-> mod.m, on |-> i]
  /\ UNCHANGED <<parser, argv, args, pc, stack, r, result, wm, nextRef, hist,
                 builder, optsHeap>>

\* help(text) on the i-th handler, line 63
Help ==
  /\ \E i \in 1..Len(made) : \E text \in Texts :
       /\ optsHeap' = [optsHeap EXCEPT ![made[i].opts].help = Str(text)]
       /\ call' = [op |-> "help", on |-> i]
  /\ UNCHANGED <<parser, argv, args, pc, stack, r, result, wm, nextRef, hist,
                 builder, made>>

\* group(text) on the i-th handler, line 64
GroupOf ==
  /\ \E i \in 1..Len(made) : \E text \in Texts :
       /\ optsHeap' = [optsHeap EXCEPT ![made[i].opts].group = Str(text)]
       /\ call' = [op |-> "group", on |-> i]
  /\ UNCHANGED <<parser, argv, args, pc, stack, r, result, wm, nextRef, hist,
                 builder, made>>

-----------------------------------------------------------------------------
(* Specifications *)

Fresh ==
  /\ args = <<>> /\ pc = "start" /\ stack = <<>>
  /\ r = None /\ result = None
  /\ wm = <<>> /\ nextRef = 1

\* one parse run, on handlers nobody has run before
NoHist == [run |-> 0, plan |-> <<>>, outcomes |-> <<>>, base |-> 1]

\* no builder and no handler object under observation
NoObjects ==
  /\ builder = None /\ made = <<>> /\ optsHeap = <<>> /\ call = None

\* parse(argv) on one of the parsers
Init == parser \in Parsers /\ argv \in Argvs /\ Fresh /\ hist = NoHist /\ NoObjects

Next ==
  \/ ParseStart
  \/ ScanHandler
  \/ OneofTry
  \/ OneofFail
  \/ ScanExit
  \/ OneofReturn
  \/ ParseScanned
  \/ ParseValues

Spec == Init /\ [][Next]_vars

\* expand_flags(argv) on its own
InitExpand ==
  parser = PEmpty /\ argv \in CharArgvs /\ Fresh /\ hist = NoHist /\ NoObjects

NextExpand == ExpandFlags

SpecExpand == InitExpand /\ [][NextExpand]_vars

\* parse(argv) on one of two parsers that share their oneof handler, after
\* an earlier parse on either of them
InitRerun ==
  /\ parser \in RerunParsers /\ argv \in RerunArgvs /\ Fresh /\ NoObjects
  /\ \E p \in RerunParsers, a \in RerunArgvs :
       hist = [run |-> 1, plan |-> <<[parser |-> p, argv |-> a]>>,
               outcomes |-> <<>>, base |-> 1]

NextRerun == Next \/ ParseAgain

SpecRerun == InitRerun /\ [][NextRerun]_vars

\* a flag() or param() builder, with an activator or with none, and the
\* handlers made from it
InitObjects ==
  /\ parser = PEmpty /\ argv = <<>> /\ Fresh /\ hist = NoHist
  /\ builder \in {Builder(kind, given) :
                    kind \in {"flag", "param"}, given \in {<<>>, <<TV>>}}
  /\ made = <<>> /\ optsHeap = <<>> /\ call = None

NextObjects ==
  \/ As
  \/ Derive
  \/ Help
  \/ GroupOf

SpecObjects == InitObjects /\ [][NextObjects]_vars

\* parse runs to its end: a sequential program takes its next step
FairSpec == Spec /\ WF_vars(Next)

-----------------------------------------------------------------------------
(* doScan as a function of the parser, the token list and the start: what  *)
(* the activation of NewFrame(hs, a, pos) returns, with the groups as      *)
(* (toks, at) and no array identities.                                     *)

RECURSIVE RefLoop(_, _, _, _, _)
RECURSIVE RefFor(_, _, _, _, _, _)
RECURSIVE RefOneof(_, _, _, _, _)

\* lines 328-330
RefExit(a, pos, init, mapres) ==
  IF pos = init /\ pos < Len(a)
    THEN MatchError(MsgNothing)
    ELSE Scanned(pos, mapres)

RefScan(hs, a, pos) == RefLoop(hs, a, pos, pos, [i \in 1..Len(hs) |-> <<>>])

\* oneof's scan from alternative o on, lines 192-202
RefOneof(opt, a, pos, o, errors) ==
  IF o > Len(opt) THEN MatchError(Join(errors))
  ELSE LET try_res == RefScan(opt[o], a, pos)
       IN  IF IsMatchError(try_res)
             THEN RefOneof(opt, a, pos, o + 1, Append(errors, try_res.message))
             ELSE Arr(Slice(a, pos, try_res.pos))

\* the for loop from handler h on, lines 315-325
RefFor(hs, a, pos, init, mapres, h) ==
  IF h > Len(hs) THEN RefExit(a, pos, init, mapres)
  ELSE LET res == IF hs[h].kind = "oneof"
                    THEN RefOneof(hs[h].opt, a, pos, 1, <<>>)
                    ELSE scan(hs[h], a, pos, mapres[h])
       IN  IF IsMatchError(res) THEN res
           ELSE IF IsNull(res) THEN RefFor(hs, a, pos, init, mapres, h + 1)
           ELSE RefLoop(hs, a, pos + Len(res.items), init,
                        [mapres EXCEPT ![h] =
                           Append(@, [toks |-> res.items, at |-> pos])])

\* the while loop, line 314
RefLoop(hs, a, pos, init, mapres) ==
  IF pos < Len(a)
    THEN RefFor(hs, a, pos, init, mapres, 1)
    ELSE RefExit(a, pos, init, mapres)

-----------------------------------------------------------------------------
(* Claims about parse *)

Terminated == pc \in {"done", "threw", "exited"}

\* token number i (from 0) of args lies in a group of the accumulators mapres
Covered(mapres, i) ==
  \E j \in DOMAIN mapres : \E k \in 1..Len(mapres[j]) :
    /\ mapres[j][k].at <= i
    /\ i < mapres[j][k].at + Len(mapres[j][k].toks)

\* C1: parse extracts and returns a result only when the position doScan
\* returned is the length of the normalized token list, so that every
\* normalized token lies in a group some handler claimed; it never returns a
\* result built from a scan that left tokens unconsumed.
C1_ParseRequiresFullScan ==
  /\ pc \in {"values", "done"} =>
       /\ args = expand_flags(argv)
       /\ r.t = "scanned"
       /\ r.pos = Len(args)
       /\ \A i \in 0..(Len(args) - 1) : Covered(r.mapres, i)
  /\ result.t = "object" => pc = "done"

\* C1's case: parse returned a result for a list of at least two tokens
C1_Witness ==
  /\ pc = "done" /\ result.t = "object"
  /\ Len(args) >= 2 /\ parser = PFlagParam

\* no handler of a parser without oneof claims the token at position 0
FirstTokenUnmatched ==
  /\ Len(args) > 0
  /\ \A j \in 1..Len(parser) :
       /\ parser[j].kind # "oneof"
       /\ IsNull(scan(parser[j], args, 0, <<>>))

\* C2: when no handler matches the first token, parse ends on the
\* unrecognized-argument path (the report of that token and exit code 1), not
\* with a thrown match error and not with a result.
C2_UnmatchedFirstTokenIsUnrecognized ==
  (Terminated /\ FirstTokenUnmatched) =>
     (pc = "exited" /\ result = Exited(args[1]))

-----------------------------------------------------------------------------
(* Claims about doScan *)

\* the doScan activations in progress, as (init, pos, mapres, iter)
Activations == {stack[i] : i \in 1..Len(stack)}

\* the places (handler, index) of the groups of mapres
Places(mapres) ==
  UNION {{<<j, k>> : k \in 1..Len(mapres[j])} : j \in DOMAIN mapres}

RECURSIVE TokensIn(_, _)
TokensIn(groups, k) ==
  IF k > Len(groups) THEN 0 ELSE Len(groups[k].toks) + TokensIn(groups, k + 1)

RECURSIVE TotalTokens(_, _)
TotalTokens(mapres, j) ==
  IF j > Len(mapres) THEN 0
  ELSE TokensIn(mapres[j], 1) + TotalTokens(mapres, j + 1)

GroupEnd(g) == g.at + Len(g.toks)

ScanShape(init, pos, mapres) ==
  /\ init <= pos /\ pos <= Len(args)
  /\ TotalTokens(mapres, 1) = pos - init
  /\ \A p \in Places(mapres) :
       LET g == mapres[p[1]][p[2]]
       IN  /\ init <= g.at /\ GroupEnd(g) <= Len(args)
           /\ g.toks = SubSeq(args, g.at + 1, GroupEnd(g))
  /\ \A p \in Places(mapres), q \in Places(mapres) :
       LET g == mapres[p[1]][p[2]]
           g2 == mapres[q[1]][q[2]]
       IN  /\ p # q => (GroupEnd(g) <= g2.at \/ GroupEnd(g2) <= g.at)
           /\ (p[1] = q[1] /\ p[2] < q[2]) => GroupEnd(g) <= g2.at

ScanShapeEverywhere ==
  /\ \A f \in Activations : ScanShape(f.init, f.pos, f.mapres)
  /\ r.t = "scanned" => ScanShape(0, r.pos, r.mapres)

\* an activation keeps its start, and its position does not decrease
PositionNeverDecreases ==
  \A i \in 1..Min(Len(stack), Len(stack')) :
    /\ stack'[i].init = stack[i].init
    /\ stack'[i].pos >= stack[i].pos

\* C3: in every state of every doScan activation (nested ones included) the
\* position lies between the start and the length of the token list and never
\* decreases, the accumulators hold position - start tokens in all, and their
\* groups are pairwise disjoint contiguous ranges of the token list within
\* [start, length), each accumulator listing its groups in increasing order.
C3_ScanInvariant == []ScanShapeEverywhere /\ [][PositionNeverDecreases]_vars

\* C3's case: a nested doScan that has claimed two tokens, under a doScan
\* that has claimed one
C3_Witness ==
  /\ Len(stack) = 2
  /\ stack[1].pos > stack[1].init
  /\ stack[2].pos >= stack[2].init + 2

\* every group claimed inside the loop holds a token, and the loop has made
\* at most length - start passes
ScanProgress ==
  \A f \in Activations :
    /\ \A p \in Places(f.mapres) : Len(f.mapres[p[1]][p[2]].toks) >= 1
    /\ f.iter <= Len(args) - f.init

\* a pass of the while loop that does not leave it advances the position
IterationAdvances ==
  \A i \in 1..Min(Len(stack), Len(stack')) :
    stack'[i].iter > stack[i].iter =>
      /\ stack[i].iter >= 1
      /\ stack'[i].iter = stack[i].iter + 1
      /\ stack'[i].pos > stack[i].pos

ScanOver == pc \notin {"start", "scan"}

\* C4: doScan terminates for every parser and token list: every group claimed
\* in the loop has at least one token, so every pass that does not leave the
\* loop advances the position, the loop makes at most length - start passes,
\* and the top-level doScan (with the doScans nested in it) returns.
C4_ScanTerminates ==
  []ScanProgress /\ [][IterationAdvances]_vars /\ <>ScanOver

\* C4's case: a nested doScan returned after length - start = 3 passes
C4_Witness ==
  /\ Len(stack) = 2
  /\ Top.pc = "ret" /\ Top.ret.t = "scanned"
  /\ Top.init = 0 /\ Top.iter = 3

-----------------------------------------------------------------------------
(* Claims about the primitives *)

\* parse got as far as doValues
ValuesRan == pc \in {"done", "threw"} /\ r.t = "scanned"

Count(a, tok) == Cardinality({i \in 1..Len(a) : a[i] = tok})

MatchErrorThrown(message) == Error(<<[m |-> "match error: "]>> \o message)

BeginsWithDash(tok) == Len(tok) >= 1 /\ tok[1] = "-"

\* group g, claimed by the param handler h in an activation now at pos
ParamGroupAsClaimed(h, g, pos) ==
  LET p == g.at
  IN  /\ p < Len(args) /\ Includes(h.activators, args[p + 1])
      /\ IF p + 1 >= Len(args) \/ BeginsWithDash(args[p + 2])
           THEN /\ g.toks = <<args[p + 1]>>
                /\ baseValue(h, <<g>>, wm) = Undefined
           ELSE /\ g.toks = <<args[p + 1], args[p + 2]>>
                /\ baseValue(h, <<g>>, wm) = Str(args[p + 2])

\* the token after group g, if the scan went on to claim it, starts a group
NextTokenLeft(mapres, g, pos) ==
  pos > GroupEnd(g) =>
    \E q \in Places(mapres) : mapres[q[1]][q[2]].at = GroupEnd(g)

ParamGroupsOf(hs, mapres, pos) ==
  \A p \in Places(mapres) :
    hs[p[1]].kind = "param" =>
      /\ ParamGroupAsClaimed(hs[p[1]], mapres[p[1]][p[2]], pos)
      /\ NextTokenLeft(mapres, mapres[p[1]][p[2]], pos)

\* C6: a param whose activator is at position p claims the activator alone,
\* with an absent value, when the token at p+1 is missing or begins with "-"
\* (that token is then claimed, if at all, as the start of another group);
\* otherwise it claims both tokens and its value is the token at p+1.  parse
\* returns that value in the param's field.
C6_ParamCapture ==
  /\ \A f \in Activations : ParamGroupsOf(f.hs, f.mapres, f.pos)
  /\ r.t = "scanned" => ParamGroupsOf(parser, r.mapres, r.pos)
  /\ (parser = PFlagParam /\ pc = "done") =>
       result.fields[Ko] =
         IF Len(r.mapres[2]) = 0 THEN Undefined
         ELSE IF Len(r.mapres[2][1].toks) = 1 THEN Undefined
         ELSE Str(args[r.mapres[2][1].at + 2])

\* C6's case: the activator followed by a token that begins with "-"
C6_Witness ==
  /\ parser = PFlagParam /\ args = <<TO, TV>> /\ pc = "done"
  /\ result.fields[Ko] = Undefined /\ result.fields[Kv] = Bool(TRUE)

\* the two positional tokens with the flag's activator before, between or
\* after them, or without it
PositionalArgvs == {<<TX, TY>>, <<TV, TX, TY>>, <<TX, TV, TY>>, <<TX, TY, TV>>}

\* C7: with arg("a") declared before arg("b") and a flag handler declared
\* anywhere relative to them, parse binds a to the first and b to the second
\* positional token wherever the flag's activator stands in the token list.
C7_PositionalOrder ==
  ( /\ Terminated
    /\ parser \in {PArgsFirst, PArgsLast, PArgsAround}
    /\ argv \in PositionalArgvs ) =>
      /\ pc = "done"
      /\ result.fields[Ka] = Str(TX)
      /\ result.fields[Kb] = Str(TY)

-----------------------------------------------------------------------------
(* Claims about oneof *)

\* the accumulators without the array identities
Plain(mapres) ==
  [j \in DOMAIN mapres |->
     [k \in 1..Len(mapres[j]) |->
        [toks |-> mapres[j][k].toks, at |-> mapres[j][k].at]]]

\* the alternatives of opt whose own scan succeeds at pos
Succeeding(opt, pos) ==
  {o \in 1..Len(opt) : ~IsMatchError(RefScan(opt[o], args, pos))}

FirstOf(S) == CHOOSE o \in S : \A o2 \in S : o <= o2

\* no MatchError in an extracted object, and none of the messages in one
NoneOf(v, messages) ==
  /\ v.t = "object" => \A key \in DOMAIN v.fields : ~IsMatchError(v.fields[key])
  /\ IsMatchError(v) =>
       \A i \in 1..Len(messages) : \A n \in 1..Len(messages[i]) :
         ~Includes(v.message, messages[i][n])

\* group g of the oneof handler h is the slice, and its value the extraction,
\* of the first alternative whose scan succeeds at g.at
OneofGroupAsClaimed(h, g) ==
  LET S == Succeeding(h.opt, g.at)
  IN  /\ S # {}
      /\ LET o == FirstOf(S)
             try_res == RefScan(h.opt[o], args, g.at)
             v == baseValue(h, <<g>>, wm)
         IN  /\ g.toks = Slice(args, g.at, try_res.pos)
             /\ wmHas(h, wm, g)
             /\ wm[g.ref].opt = h.opt[o]
             /\ Plain(wm[g.ref].mapres) = try_res.mapres
             /\ v = doValues(h.opt[o], wm[g.ref].mapres, wm)
             /\ NoneOf(v, [n \in 1..(o - 1) |->
                             RefScan(h.opt[n], args, g.at).message])

OneofGroupsOf(hs, mapres) ==
  \A p \in Places(mapres) :
    hs[p[1]].kind = "oneof" =>
      OneofGroupAsClaimed(hs[p[1]], mapres[p[1]][p[2]])

\* activation f returned the MatchError of its oneof handler at f.h
OneofFailed(f) ==
  /\ f.pc = "ret" /\ IsMatchError(f.ret)
  /\ Len(f.hs) > 0 /\ f.hs[f.h].kind = "oneof"

\* C8: a group claimed by a oneof handler at a position is the slice consumed
\* by the first alternative, in listed order, whose own scan succeeds there,
\* recorded with that alternative and the accumulators that scan produced;
\* the handler's value of that group is that alternative's extraction of
\* those accumulators, and holds none of the failure messages of the
\* alternatives before it.  When every alternative's scan fails, the oneof
\* scan is the MatchError of all their messages joined by ", ".
C8_OneofFirstMatch ==
  /\ \A f \in Activations : OneofGroupsOf(f.hs, f.mapres)
  /\ r.t = "scanned" => OneofGroupsOf(parser, r.mapres)
  /\ pc = "done" =>
       \A j \in 1..Len(parser) :
         (parser[j].kind = "oneof" /\ parser[j].mods = <<>>
            /\ Len(r.mapres[j]) = 1) =>
           result.fields[parser[j].key] = baseValue(parser[j], r.mapres[j], wm)
  /\ \A f \in Activations :
       OneofFailed(f) =>
         LET opt == f.hs[f.h].opt
         IN  /\ Succeeding(opt, f.pos) = {}
             /\ f.ret.message =
                  Join([o \in 1..Len(opt) |-> RefScan(opt[o], args, f.pos).message])

\* C8's case: the first alternative fails on "lit", the second claims it
C8_Witness ==
  /\ parser = POneof /\ args = <<TL>> /\ pc = "done"
  /\ result.fields[<<"c", "m", "d">>] =
       Obj((<<"w">> :> Bool(FALSE)) @@ (<<"c", "l">> :> Str(TL)))

-----------------------------------------------------------------------------
(* Claims about expand_flags *)

HasEq(tok) == \E e \in 1..Len(tok) : tok[e] = "="

FirstEq(tok) ==
  CHOOSE e \in 1..Len(tok) : tok[e] = "=" /\ \A j \in 1..(e - 1) : tok[j] # "="

\* what one token expands to
Expansion(tok) ==
  IF ~BeginsWithDash(tok) THEN <<tok>>
  ELSE IF Len(tok) >= 2 /\ tok[2] = "-"
    THEN IF HasEq(tok)
           THEN <<SubSeq(tok, 1, FirstEq(tok) - 1),
                  SubSeq(tok, FirstEq(tok) + 1, Len(tok))>>
           ELSE <<tok>>
  ELSE LET n == IF HasEq(tok) THEN FirstEq(tok) - 2 ELSE Len(tok) - 1
       IN  [j \in 1..n |-> <<"-", tok[j + 1]>>]
             \o (IF HasEq(tok)
                   THEN <<SubSeq(tok, FirstEq(tok) + 1, Len(tok))>>
                   ELSE <<>>)

RECURSIVE ConcatFrom(_, _)
ConcatFrom(lists, i) ==
  IF i > Len(lists) THEN <<>> ELSE lists[i] \o ConcatFrom(lists, i + 1)

\* C9: expand_flags(argv) is the concatenation, in input order, of the
\* expansions of its tokens: a token without a leading "-" is itself (a list
\* without such tokens comes back unchanged); "-" and characters c1..cn, the
\* first not "-", gives "-c1" .. "-ck" for the characters before the first
\* "=", then the rest after that "=" as one token if there is one; a "--"
\* token with an "=" gives what is before and what is after the first "=";
\* any other "--" token is itself.  argv itself is left as it was.
C9_ExpandFlags ==
  /\ [](pc = "expanded" =>
          /\ args = ConcatFrom([i \in 1..Len(argv) |-> Expansion(argv[i])], 1)
          /\ (\A i \in 1..Len(argv) : ~BeginsWithDash(argv[i])) => args = argv)
  /\ [][argv' = argv]_vars

\* C9's case: "-a=a" then "--=a"
C9_Witness ==
  /\ pc = "expanded"
  /\ argv = << <<"-", "a", "=", "a">>, <<"-", "-", "=", "a">> >>
  /\ args = << <<"-", "a">>, <<"a">>, <<"-", "-">>, <<"a">> >>

-----------------------------------------------------------------------------
(* Claims about repeat *)

LastMod(h) == IF Len(h.mods) = 0 THEN "" ELSE h.mods[Len(h.mods)].m

Present(v) == ~IsNull(v)

\* the value of h = base.repeat() on groups is the first MatchError among
\* the base values of the groups, or else the list of those that are present
RepeatValueAsClaimed(h, groups) ==
  LET vals == [k \in 1..Len(groups) |->
                 valueAt(h, Len(h.mods) - 1, <<groups[k]>>, wm)]
      failed == {k \in 1..Len(groups) : IsMatchError(vals[k])}
      v == value(h, groups, wm)
  IN  /\ \A k \in 1..Len(groups) : ~IsPanic(vals[k])
      /\ failed # {} => v = vals[FirstOf(failed)]
      /\ failed = {} => v = Arr(SelectSeq(vals, Present))

\* C10: the scan of h.repeat() is the base scan called with an empty
\* accumulator, so it claims wherever that claims, any number of times; its
\* value applies the base value to each claimed group alone, in claim order,
\* and is the list of the values extracted, or, as soon as one of them is a
\* MatchError, that MatchError and no list.  parse returns the list in the
\* handler's field or throws the error.
C10_Repeat ==
  /\ \A f \in Activations :
       \A j \in 1..Len(f.hs) :
         (Repeated(f.hs[j]) /\ f.hs[j].kind # "oneof") =>
           /\ (f.pc = "for" /\ f.h = j) =>
                scan(f.hs[j], args, f.pos, f.mapres[j])
                  = baseScan(f.hs[j], args, f.pos, <<>>)
           /\ \A k \in 1..Len(f.mapres[j]) :
                baseScan(f.hs[j], args, f.mapres[j][k].at, <<>>)
                  = Arr(f.mapres[j][k].toks)
  /\ ValuesRan =>
       \A j \in 1..Len(parser) :
         LastMod(parser[j]) = "repeat" =>
           /\ RepeatValueAsClaimed(parser[j], r.mapres[j])
           /\ IsMatchError(value(parser[j], r.mapres[j], wm)) => pc = "threw"
           /\ pc = "done" =>
                /\ result.fields[parser[j].key] = value(parser[j], r.mapres[j], wm)
                /\ result.fields[parser[j].key].t = "array"

\* C10's case: the second of two claimed groups fails extraction
C10_Witness ==
  /\ parser = PRepeat /\ args = <<TO, TX, TO>>
  /\ pc = "threw" /\ r.t = "scanned" /\ Len(r.mapres[2]) = 2
  /\ result = MatchErrorThrown(MsgMustActs(<<TO>>))

-----------------------------------------------------------------------------
(* C11: required, map and default on the value of their base *)

\* the values default() is given
DefaultValues == {Str(TY), Bool(FALSE)}

\* what required() reports for h: the activators, or the key without them
MustBeSpecified(h) ==
  MatchError(IF h.hasActivators THEN MsgMustActs(h.activators)
                                ELSE MsgMustKey(h.key))

\* the case table of the three combinators on h, with groups in its accumulator
CaseTable(h, groups) ==
  LET base == value(h, groups, wm)
      req == value(required(h), groups, wm)
      mapped == value(map(h), groups, wm)
  IN  ~IsPanic(base) =>
        /\ IsNull(base) =>
              /\ req = MustBeSpecified(h)
              /\ mapped = Undefined
              /\ \A v \in DefaultValues : value(default(h, v), groups, wm) = v
        /\ IsMatchError(base) =>
              /\ req = base
              /\ mapped = base
              /\ \A v \in DefaultValues : value(default(h, v), groups, wm) = base
        /\ (~IsNull(base) /\ ~IsMatchError(base)) =>
              /\ req = base
              /\ mapped = Mapped(base)
              /\ \A v \in DefaultValues : value(default(h, v), groups, wm) = base

\* C11: on every handler and every accumulator a scan leaves it, required,
\* map(f) and default(v) follow the case table on the base value: absent
\* gives a MatchError naming the activators or the key, absent, and v; a
\* MatchError gives that MatchError from all three; a present x gives x,
\* f(x) and x.  parse puts these values in the fields of its result.
C11_ValueCombinators ==
  ValuesRan =>
    /\ \A j \in 1..Len(parser) : CaseTable(parser[j], r.mapres[j])
    /\ pc = "done" =>
         \A j \in 1..Len(parser) :
           result.fields[parser[j].key] = value(parser[j], r.mapres[j], wm)

\* C11's case: one run with the param absent under default(v), the first
\* positional present under map(f) and the second present under required
C11_Witness ==
  /\ parser = PCombinators /\ pc = "done"
  /\ r.mapres[1] = <<>>
  /\ result.fields[Ko] = Str(TY)
  /\ result.fields[Ka] = Mapped(Str(TX))
  /\ result.fields[Kb] = Str(TY)

-----------------------------------------------------------------------------
(* C12: failures as returned values *)

\* parse threw what a value function threw, with no "match error: " in front
ExceptionRaised == pc = "threw" /\ result = Error(<<[m |-> "?!"]>>)

\* C12: doScan and doValues, and every scan and value they call, report a
\* failure as a returned MatchError and never by raising an exception:
\* the value of every handler on its accumulator, and doValues on all of
\* them, is an ordinary value or a MatchError, and parse throws nothing but
\* the "match error" it builds from a returned one, also when a oneof
\* handler has claimed more than one group.
C12_FailuresAreValues ==
  /\ ~ExceptionRaised
  /\ ValuesRan =>
       /\ \A j \in 1..Len(parser) : ~IsPanic(value(parser[j], r.mapres[j], wm))
       /\ ~IsPanic(doValues(parser, r.mapres, wm))

-----------------------------------------------------------------------------
(* C13: a run and the runs before it *)

\* the entries the WeakMaps got in the current run: all that the WeakMaps
\* of freshly built handlers would hold after the same scan
ThisRun(w) == [k \in {x \in DOMAIN w : x >= hist.base} |-> w[k]]

\* what parse makes of the value r2 of doValues, lines 356-358
Returned(r2) ==
  IF IsPanic(r2) THEN [pc |-> "threw", result |-> Error(<<[m |-> "?!"]>>)]
  ELSE IF IsMatchError(r2)
    THEN [pc |-> "threw", result |-> MatchErrorThrown(r2.message)]
  ELSE [pc |-> "done", result |-> r2]

\* C13: what a run returns depends on the handler list and the token list
\* alone.  In a run that follows another on the same parser, or on a parser
\* sharing its oneof handler and so its side table, doScan returns the
\* position and the accumulators that doScan as a function of parser and
\* tokens gives, and doValues the result it gives on the side table of
\* fresh handlers, which holds the entries of this run and none before.
C13_RunsIndependent ==
  /\ r.t = "scanned" =>
       /\ r.pos = RefScan(parser, args, 0).pos
       /\ Plain(r.mapres) = RefScan(parser, args, 0).mapres
  /\ IsMatchError(r) => r = RefScan(parser, args, 0)
  /\ ValuesRan =>
       /\ doValues(parser, r.mapres, wm) = doValues(parser, r.mapres, ThisRun(wm))
       /\ [pc |-> pc, result |-> result]
            = Returned(doValues(parser, r.mapres, ThisRun(wm)))

\* C13's case: the second run claims "x" through the oneof handler whose
\* side table holds the entry of "lit" from the first run, on another parser
C13_Witness ==
  /\ hist.run = 2 /\ pc = "done"
  /\ parser = PCmdAgain /\ argv = <<TX>>
  /\ hist.plan[1].parser = PCmdAgain
  /\ hist.outcomes[1].pc = "done"
  /\ \E k \in DOMAIN wm :
       /\ k < hist.base /\ wm[k].wm = POneof[2].wm /\ wm[k].opt = AltLit
  /\ result.fields[POneof[2].key] = Arr(<<Obj([f \in {<<"c", "x">>, Ko} |->
        IF f = Ko THEN Undefined ELSE Str(TX)])>>)

-----------------------------------------------------------------------------
(* C14: handlers once constructed *)

\* the metadata of the i-th handler: what its opts object holds
Meta(i) == optsHeap[made[i].opts]

\* handler j was derived from handler i, in one step or several
RECURSIVE DerivedFrom(_, _)
DerivedFrom(j, i) ==
  /\ made[j].from # 0
  /\ (made[j].from = i \/ DerivedFrom(made[j].from, i))

\* C14: no operation changes a handler that exists: required, map, default
\* and repeat make a new handler and leave the scan, the value and the
\* metadata (key, help, group, activators) of every existing one as they
\* were, and help() or group() called on a derived handler leaves the
\* metadata of the handler it was derived from as it was.
C14_HandlersImmutable ==
  [][\A i \in 1..Len(made) :
       /\ Len(made') >= Len(made) /\ made'[i] = made[i]
       /\ call'.op \in {"required", "map", "default", "repeat"} => Meta(i)' = Meta(i)
       /\ (call'.op \in {"help", "group"} /\ DerivedFrom(call'.on, i)) =>
            Meta(i)' = Meta(i)]_vars

-----------------------------------------------------------------------------
(* C15: the default activator *)

\* C15: every handler that as(key) returns on a builder created with no
\* activators has the one activator "--" + key, for the key of that call
C15_DefaultActivator ==
  (builder # None /\ builder.given = <<>>) =>
    \A i \in 1..Len(made) :
      made[i].from = 0 =>
        /\ made[i].h.activators = << <<"-", "-">> \o made[i].h.key >>
        /\ Meta(i).activators = << <<"-", "-">> \o Meta(i).key >>

-----------------------------------------------------------------------------
(* C16: who claims the token at a position *)

\* what the scan of handler j of activation f returns at f's position, given
\* the accumulator j has so far
Asked(f, j) ==
  IF f.hs[j].kind = "oneof"
    THEN RefOneof(f.hs[j].opt, args, f.pos, 1, <<>>)
    ELSE scan(f.hs[j], args, f.pos, f.mapres[j])

\* the for loop is at handler h because every handler before h was asked at
\* this position and returned no group; it is left only when all did
AskedInOrder ==
  \A f \in Activations :
    /\ f.pc = "for" => \A j \in 1..(f.h - 1) : Asked(f, j) = Undefined
    /\ (f.pc = "exit" /\ f.pos < Len(args)) =>
         \A j \in 1..Len(f.hs) : Asked(f, j) = Undefined

\* a step of activation i that changes its accumulators or its position
\* appends the group handler h returned to the accumulator of h alone,
\* advances the position by the length of that group and goes back to the
\* first handler; no step removes or changes a group
ClaimSteps ==
  \A i \in 1..Min(Len(stack), Len(stack')) :
    LET f == stack[i]
        f2 == stack'[i]
    IN  /\ \A j \in 1..Len(f.hs) :
             /\ Len(f2.mapres[j]) >= Len(f.mapres[j])
             /\ SubSeq(f2.mapres[j], 1, Len(f.mapres[j])) = f.mapres[j]
        /\ (f2.mapres # f.mapres \/ f2.pos # f.pos) =>
             LET g == f2.mapres[f.h][Len(f2.mapres[f.h])]
             IN  /\ f.pc = "for"
                 /\ Asked(f, f.h) = Arr(g.toks)
                 /\ g.at = f.pos
                 /\ f2.mapres = [f.mapres EXCEPT ![f.h] = Append(@, g)]
                 /\ f2.pos = f.pos + Len(g.toks)
                 /\ f2.pc = "for" => f2.h = 1
                 /\ f2.pc # "for" => (f2.pc = "exit" /\ f2.pos >= Len(args))

\* C16: at every position doScan reaches, the group claimed is the one that
\* the first handler in declaration order whose scan, given its own
\* accumulator, returns a group there returns; it is appended to the
\* accumulator of that handler and no other, the position advances by
\* exactly its length, the next position is tried from the first handler
\* again, and no group assigned earlier is changed or removed.
C16_FirstHandlerClaims == []AskedInOrder /\ [][ClaimSteps]_vars

\* C16's case: the second handler has claimed the first two tokens, the
\* first handler the third, and the loop is back at the first handler
C16_Witness ==
  /\ parser = PFlagParam /\ Len(stack) = 1
  /\ args = <<<<"-", "-", "o">>, TX, TV, TV>>
  /\ Top.pc = "for" /\ Top.h = 1 /\ Top.pos = 3
  /\ Len(Top.mapres[1]) = 1 /\ Top.mapres[1][1].at = 2
  /\ Len(Top.mapres[2]) = 1 /\ Top.mapres[2][1].toks = <<<<"-", "-", "o">>, TX>>

-----------------------------------------------------------------------------
(* C17: a scan that returns a MatchError *)

\* handler j is the first of activation f to return something at f's
\* position, and what it returns is a MatchError
FailsFirst(f, j) ==
  /\ f.pos < Len(args)
  /\ IsMatchError(Asked(f, j))
  /\ \A j2 \in 1..(j - 1) : Asked(f, j2) = Undefined

\* the activation never asks a handler after j at that position, claims
\* nothing there, and returns what j returned
FailureReturned ==
  /\ \A f \in Activations :
       \A j \in 1..Len(f.hs) :
         FailsFirst(f, j) =>
           /\ f.pc \in {"for", "ret"}
           /\ f.h <= j
           /\ f.pc = "ret" => (f.h = j /\ f.ret = Asked(f, j))
  /\ IsMatchError(r) =>
       /\ DOMAIN r = {"t", "message"}
       /\ pc = "threw" /\ result = MatchErrorThrown(r.message)

\* the MatchError an activation returned goes to its caller as it is: to
\* parse, or to the errors of the oneof scan that called it
FailureHandedUp ==
  (Len(stack) > 0 /\ Len(stack') = Len(stack) - 1 /\ IsMatchError(Top.ret)) =>
    IF Len(stack) = 1
      THEN r' = Top.ret
      ELSE LET caller == stack[Len(stack) - 1]
           IN  stack'[Len(stack')] =
                 [caller EXCEPT !.errors = Append(@, Top.ret.message), !.o = @ + 1]

\* C17: when, at some position, the first handler to return anything
\* returns a MatchError, doScan returns exactly that MatchError at once: no
\* handler declared after it is asked at that position, and the caller gets
\* the MatchError and neither a position nor accumulators, also when a
\* handler declared later would have claimed the token.
C17_FailureEndsScan == []FailureReturned /\ [][FailureHandedUp]_vars

\* C17's case: expect fails on "-v", which the flag declared after it claims
C17_Witness ==
  /\ parser = PExpectFirst /\ args = <<TV>> /\ pc = "threw"
  /\ r = MatchError(MsgExpected(TL))
  /\ scan(parser[2], args, 0, <<>>) = Arr(<<TV>>)

-----------------------------------------------------------------------------
(* C18: the value of expect *)

\* handler j of the parser is expect(L).as(k) with no combinator on it
PlainExpect(j) == parser[j].kind = "expect" /\ Len(parser[j].mods) = 0

\* C18: whenever parse succeeds on a parser with a non-repeated
\* expect(L).as(k), that handler claimed exactly one group, the token L, so
\* L is among the normalized tokens; the field k of a result is L only on
\* an input in which the literal was matched.
C18_ExpectMatched ==
  pc = "done" =>
    \A j \in 1..Len(parser) :
      (PlainExpect(j) /\ result.fields[parser[j].key] = Str(parser[j].value)) =>
        /\ Len(r.mapres[j]) = 1
        /\ r.mapres[j][1].toks = <<parser[j].value>>
        /\ Includes(args, parser[j].value)

-----------------------------------------------------------------------------
(* C19: the tokens expand_flags makes of each input token *)

\* C19: expand_flags drops no token: each token of the input, the token "-"
\* included, contributes at least one token to the output, so the output
\* is at least as long as the input.
C19_NoTokenDropped ==
  pc = "expanded" =>
    /\ \A i \in 1..Len(argv) : Len(expand_flags(<<argv[i]>>)) >= 1
    /\ Len(args) >= Len(argv)

====
